---- MODULE Spec2Model ----
(***************************************************************************)
(* Model of the `mile` tokenizer: the rule engine (src/src/rule.rs) and the *)
(* incremental Lexer (src/src/lib.rs).                                      *)
(*                                                                          *)
(* A &str is a sequence of bytes.  An ASCII byte is written as the          *)
(* one-character string it encodes; the two-byte character U+00E9 is the    *)
(* byte pair "xC3", "xA9".                                                  *)
(***************************************************************************)
EXTENDS Integers, Sequences, FiniteSets

VARIABLES
    data,       \* Lexer.data: the last window sliced by step
    buffer,     \* Lexer.buffer
    rule,       \* Lexer.rule
    index,      \* Lexer.index: <<start, end>>
    ret,        \* what the last step call returned
    item,       \* what the last Iterator::next call returned
    origin,     \* how the Lexer got its current buffer: new, with_buffer, reset
    calls,      \* step calls since construction or the last reset
    eofAt,      \* number of the first step call that returned Err(Eof); 0 if none
    reported,   \* the windows at which step returned a full match, in order
    fresh,      \* a Lexer built by with_buffer(rule, buffer) and stepped alongside
    freshRet,   \* what the last step call on `fresh` returned
    probe       \* a direct evaluation rule.matches(value) and its result

vars == <<data, buffer, rule, index, ret, item, origin, calls, eofAt,
          reported, fresh, freshRet, probe>>

lexerVars == <<data, buffer, rule, index, ret, item, origin, calls, eofAt,
               reported, fresh, freshRet>>

(***************************************************************************)
(* Bounds.                                                                  *)
(***************************************************************************)
\* longest enumerated buffer, in bytes
MaxBuf == 3
\* step calls allowed after `end` has passed the end of the buffer
MaxOver == 2
\* longest enumerated window handed to matches directly, in bytes
MaxWin == 3
\* longest enumerated sub-rule list of an Any handed to matches directly
MaxAny == 2
\* longest enumerated sub-rule list of an All handed to matches directly
MaxAll == 2

(***************************************************************************)
(* Text: bytes, characters, &str operations.                                *)
(***************************************************************************)
Lead == "xC3"
Cont == "xA9"
EAcute == "U+00E9"

Letters == {"a", "c", "d", "e", "f", "i", "l", "n", "o", "r", "s", "t", "u"}
Digits == {"1"}
Spaces == {" "}

\* str::is_char_boundary
is_char_boundary(s, i) ==
    \/ i = 0
    \/ i = Len(s)
    \/ i < Len(s) /\ s[i + 1] # Cont

\* a well-formed &str: every lead byte is followed by its continuation byte
\* and a continuation byte follows a lead byte
IsStr(s) ==
    \A i \in 1..Len(s) :
        /\ s[i] = Lead => i < Len(s) /\ s[i + 1] = Cont
        /\ s[i] = Cont => i > 1 /\ s[i - 1] = Lead

\* &s[a..b]; the caller has checked the bounds
Slice(s, a, b) == SubSeq(s, a + 1, b)

\* str::chars
RECURSIVE chars(_)
chars(s) ==
    IF s = <<>> THEN <<>>
    ELSE IF s[1] = Lead THEN <<EAcute>> \o chars(SubSeq(s, 3, Len(s)))
    ELSE <<s[1]>> \o chars(Tail(s))

is_alphabetic(c) == c \in Letters \cup {EAcute}
is_numeric(c) == c \in Digits
is_whitespace(c) == c \in Spaces

\* str::starts_with(s, p)
starts_with(s, p) == Len(p) <= Len(s) /\ SubSeq(s, 1, Len(p)) = p

\* str::ends_with(s, p)
ends_with(s, p) ==
    Len(p) <= Len(s) /\ SubSeq(s, Len(s) - Len(p) + 1, Len(s)) = p

(***************************************************************************)
(* MatchResult<T> and Option<T>.  Option<T> is a sequence of length 0 or 1; *)
(* a token out(value) is the application term [out, arg].                   *)
(***************************************************************************)
NoToken == <<>>
Some(t) == <<t>>
Apply(out, value) == [out |-> out, arg |-> value]

MatchNone == [kind |-> "None", token |-> NoToken]
Match(token) == [kind |-> "Match", token |-> token]
PartialMatch == [kind |-> "PartialMatch", token |-> NoToken]

is_none(m) == m.kind = "None"
is_match(m) == m.kind = "Match"
is_partial_match(m) == m.kind = "PartialMatch"

(***************************************************************************)
(* Rule<T>.                                                                 *)
(***************************************************************************)
MkRule(tag, literal, rules, out) ==
    [tag |-> tag, literal |-> literal, rules |-> rules, out |-> out]

Literal(l) == MkRule("Literal", l, <<>>, "")
Numeric == MkRule("Numeric", <<>>, <<>>, "")
Alphabetic == MkRule("Alphabetic", <<>>, <<>>, "")
Whitespace == MkRule("Whitespace", <<>>, <<>>, "")
Value(r, out) == MkRule("Value", <<>>, <<r>>, out)
Ignore(r) == MkRule("Ignore", <<>>, <<r>>, "")
EndsWith(l) == MkRule("EndsWith", l, <<>>, "")
Not(r) == MkRule("Not", <<>>, <<r>>, "")
Only(r) == MkRule("Only", <<>>, <<r>>, "")
Both(a, b) == MkRule("Both", <<>>, <<a, b>>, "")
Either(a, b) == MkRule("Either", <<>>, <<a, b>>, "")
All(rules, out) == MkRule("All", <<>>, rules, out)
Any(rules) == MkRule("Any", <<>>, rules, "")

(***************************************************************************)
(* Rule::matches, one operator per arm.  An arm that evaluates sub-rules    *)
(* takes their results.                                                     *)
(***************************************************************************)
\* Literal with the operands of starts_with swapped
matchesLiteralSwapped(literal, value) ==
    IF value = literal THEN Match(NoToken)
    ELSE IF starts_with(value, literal) THEN PartialMatch
    ELSE MatchNone

matchesLiteral(literal, value) ==
    IF value = literal THEN Match(NoToken)
    ELSE IF starts_with(literal, value) THEN PartialMatch
    ELSE MatchNone

matchesNumeric(value) ==
    IF \A i \in 1..Len(chars(value)) : is_numeric(chars(value)[i])
    THEN Match(NoToken) ELSE MatchNone

matchesAlphabetic(value) ==
    IF \A i \in 1..Len(chars(value)) : is_alphabetic(chars(value)[i])
    THEN Match(NoToken) ELSE MatchNone

matchesWhitespace(value) ==
    IF \A i \in 1..Len(chars(value)) : is_whitespace(chars(value)[i])
    THEN Match(NoToken) ELSE MatchNone

\* Value that hands on the value its inner rule carried, when it carried one
matchesValueKeepInner(r, out, value) ==
    IF is_match(r)
    THEN (IF r.token # NoToken THEN r ELSE Match(Some(Apply(out, value))))
    ELSE IF is_partial_match(r) THEN PartialMatch
    ELSE MatchNone

matchesValue(r, out, value) ==
    IF is_match(r) THEN Match(Some(Apply(out, value)))
    ELSE IF is_partial_match(r) THEN PartialMatch
    ELSE MatchNone

matchesEndsWith(literal, value) ==
    IF ends_with(value, literal) THEN Match(NoToken) ELSE MatchNone

matchesNot(r) ==
    IF is_none(r) THEN Match(NoToken) ELSE MatchNone

matchesBoth(a, b) ==
    IF is_match(a)
    THEN (IF is_match(b) THEN Match(NoToken) ELSE MatchNone)
    ELSE MatchNone

\* Either hands B's outcome through unchanged, values included
matchesEitherKeepValue(a, b) ==
    IF is_match(a) THEN a
    ELSE IF is_partial_match(a) THEN PartialMatch
    ELSE b

\* Either falls through to B while A is still a partial match
matchesEitherNoDefer(a, b) ==
    IF is_match(a) THEN Match(NoToken)
    ELSE IF is_match(b) THEN Match(NoToken)
    ELSE IF is_partial_match(a) \/ is_partial_match(b) THEN PartialMatch
    ELSE MatchNone

matchesEither(a, b) ==
    IF is_match(a) THEN Match(NoToken)
    ELSE IF is_partial_match(a) THEN PartialMatch
    ELSE IF is_match(b) THEN Match(NoToken)
    ELSE IF is_partial_match(b) THEN PartialMatch
    ELSE MatchNone

\* the loop of the All arm from sub-rule i on
RECURSIVE allLoop(_, _, _, _)
allLoop(rs, i, out, value) ==
    IF i > Len(rs) THEN Match(Some(Apply(out, value)))
    ELSE IF is_none(rs[i]) THEN MatchNone
    ELSE IF is_partial_match(rs[i]) THEN PartialMatch
    ELSE allLoop(rs, i + 1, out, value)

\* All in which a NoMatch anywhere in the list beats an earlier PartialMatch
matchesAllNoneFirst(rs, out, value) ==
    IF \E i \in 1..Len(rs) : is_none(rs[i]) THEN MatchNone
    ELSE IF \E i \in 1..Len(rs) : is_partial_match(rs[i]) THEN PartialMatch
    ELSE Match(Some(Apply(out, value)))

matchesAll(rs, out, value) == allLoop(rs, 1, out, value)

\* the loop of the Any arm from sub-rule i on; `matches` counts the partial
\* matches seen so far
RECURSIVE anyLoop(_, _, _)
anyLoop(rs, i, matches) ==
    IF i > Len(rs) THEN MatchNone
    ELSE IF is_none(rs[i]) THEN anyLoop(rs, i + 1, matches)
    ELSE IF is_match(rs[i])
         THEN (IF matches = 0 THEN rs[i] ELSE anyLoop(rs, i + 1, matches))
    ELSE anyLoop(rs, i + 1, matches + 1)

\* Any without the partial counter: the first full match always wins
RECURSIVE anyLoopFirstFull(_, _)
anyLoopFirstFull(rs, i) ==
    IF i > Len(rs) THEN MatchNone
    ELSE IF is_match(rs[i]) THEN rs[i]
    ELSE anyLoopFirstFull(rs, i + 1)

matchesAnyFirstFull(rs) == anyLoopFirstFull(rs, 1)

matchesAny(rs) == anyLoop(rs, 1, 0)

RECURSIVE matches(_, _)
matches(self, value) ==
    LET sub(i) == matches(self.rules[i], value)
        subs == [i \in 1..Len(self.rules) |-> matches(self.rules[i], value)]
    IN CASE self.tag = "Literal" -> matchesLiteral(self.literal, value)
         [] self.tag = "Numeric" -> matchesNumeric(value)
         [] self.tag = "Alphabetic" -> matchesAlphabetic(value)
         [] self.tag = "Whitespace" -> matchesWhitespace(value)
         [] self.tag = "Value" -> matchesValue(sub(1), self.out, value)
         [] self.tag = "Ignore" -> sub(1)
         [] self.tag = "EndsWith" -> matchesEndsWith(self.literal, value)
         [] self.tag = "Not" -> matchesNot(sub(1))
         [] self.tag = "Only" -> sub(1)
         [] self.tag = "Both" -> matchesBoth(sub(1), sub(2))
         [] self.tag = "Either" -> matchesEither(sub(1), sub(2))
         [] self.tag = "All" -> matchesAll(subs, self.out, value)
         [] self.tag = "Any" -> matchesAny(subs)

(***************************************************************************)
(* The extractor calls made while Rule::matches runs.  The arguments of     *)
(* then_some and unwrap_or are evaluated before the method is called, so    *)
(* the Value, Both and Either arms evaluate every operand expression on     *)
(* every call; the All and Any arms leave their loop at the first return.   *)
(***************************************************************************)
\* the call out(value) made by the rule node `self`
Invocation(self, value) == [rule |-> self, value |-> value]

\* how many sub-rules the loop of the All arm evaluates
RECURSIVE allEvaluated(_, _)
allEvaluated(rs, i) ==
    IF i > Len(rs) THEN Len(rs)
    ELSE IF is_match(rs[i]) THEN allEvaluated(rs, i + 1)
    ELSE i

\* how many sub-rules the loop of the Any arm evaluates; `partials` is the
\* counter the code calls `matches`
RECURSIVE anyEvaluated(_, _, _)
anyEvaluated(rs, i, partials) ==
    IF i > Len(rs) THEN Len(rs)
    ELSE IF is_match(rs[i]) /\ partials = 0 THEN i
    ELSE IF is_partial_match(rs[i]) THEN anyEvaluated(rs, i + 1, partials + 1)
    ELSE anyEvaluated(rs, i + 1, partials)

\* the extractor calls made by self.matches(value)
RECURSIVE invoked(_, _)
invoked(self, value) ==
    LET subs == [i \in 1..Len(self.rules) |-> matches(self.rules[i], value)]
        upTo(n) == UNION {invoked(self.rules[i], value) : i \in 1..n}
    IN CASE self.tag = "Value" ->
                upTo(1) \cup {Invocation(self, value)}
         [] self.tag = "All" ->
                upTo(allEvaluated(subs, 1))
                \cup (IF \A i \in 1..Len(subs) : is_match(subs[i])
                      THEN {Invocation(self, value)} ELSE {})
         [] self.tag = "Any" -> upTo(anyEvaluated(subs, 1, 0))
         [] OTHER -> upTo(Len(self.rules))

(***************************************************************************)
(* Result<Option<T>>, the Error kinds, and what Iterator::next hands out.   *)
(* A call that panics returns nothing; it is recorded as Panicked.          *)
(***************************************************************************)
Ok(token) == [kind |-> "Ok", error |-> "", token |-> token]
Err(error) == [kind |-> "Err", error |-> error, token |-> NoToken]
Panicked == [kind |-> "Panic", error |-> "", token |-> NoToken]
NotCalled == [kind |-> "NotCalled", error |-> "", token |-> NoToken]

ItemSome(token) == [kind |-> "Some", token |-> token]
ItemNone == [kind |-> "None", token |-> NoToken]
ItemPanicked == [kind |-> "Panic", token |-> NoToken]
ItemNotCalled == [kind |-> "NotCalled", token |-> NoToken]

(***************************************************************************)
(* Lexer.                                                                   *)
(***************************************************************************)
new(r) == [data |-> <<>>, buffer |-> <<>>, rule |-> r, index |-> <<0, 0>>]

with_buffer(r, b) == [data |-> <<>>, buffer |-> b, rule |-> r, index |-> <<0, 0>>]

\* reset that forgets to rewind the window
resetKeepIndex(self, b) == [self EXCEPT !.data = <<>>, !.buffer = b]

reset(self, b) ==
    [self EXCEPT !.data = <<>>, !.buffer = b, !.index = <<0, 0>>]

\* the end-of-input test, one unit later
atEofPastEnd(end, len) == end > len

\* the end-of-input test as an equality, true only the moment `end` arrives
atEofExactly(end, len) == end = len

\* the end-of-input test of step, made after `end` was incremented
atEof(end, len) == end >= len

\* a full match that leaves the window start where it was
consumeKeepStart(start, end) == start

\* the window start after a full match
consume(start, end) == end

\* step that reports a window no rule matches as Err(UnknownToken)
stepUnknownToken(self) ==
    LET start == self.index[1]
        end == self.index[2] + 1
        grown == [self EXCEPT !.index = <<start, end>>]
    IN IF end >= Len(self.buffer)
       THEN [self |-> grown, ret |-> Err("Eof"), full |-> FALSE]
       ELSE IF ~(is_char_boundary(self.buffer, start)
                 /\ is_char_boundary(self.buffer, end))
       THEN [self |-> grown, ret |-> Panicked, full |-> FALSE]
       ELSE LET window == Slice(self.buffer, start, end)
                m == matches(self.rule, window)
            IN IF is_match(m)
               THEN [self |-> [grown EXCEPT !.data = window,
                                            !.index = <<end, end>>],
                     ret |-> Ok(m.token), full |-> TRUE]
               ELSE IF is_none(m)
               THEN [self |-> [grown EXCEPT !.data = window],
                     ret |-> Err("UnknownToken"), full |-> FALSE]
               ELSE [self |-> [grown EXCEPT !.data = window],
                     ret |-> Ok(NoToken), full |-> FALSE]

\* Lexer::step: the Lexer after the call, what the call returned, and
\* whether the window was a full match.  Slicing at an offset that is not a
\* character boundary panics after `end` was incremented.
step(self) ==
    LET start == self.index[1]
        end == self.index[2] + 1
        grown == [self EXCEPT !.index = <<start, end>>]
    IN IF atEof(end, Len(self.buffer))
       THEN [self |-> grown, ret |-> Err("Eof"), full |-> FALSE]
       ELSE IF ~(is_char_boundary(self.buffer, start)
                 /\ is_char_boundary(self.buffer, end))
       THEN [self |-> grown, ret |-> Panicked, full |-> FALSE]
       ELSE LET window == Slice(self.buffer, start, end)
                m == matches(self.rule, window)
            IN IF is_match(m)
               THEN [self |-> [grown EXCEPT !.data = window,
                                            !.index = <<consume(start, end), end>>],
                     ret |-> Ok(m.token), full |-> TRUE]
               ELSE [self |-> [grown EXCEPT !.data = window],
                     ret |-> Ok(NoToken), full |-> FALSE]

\* Iterator::next, from the result of step
next(r) ==
    IF r.kind = "Ok" THEN ItemSome(r.token)
    ELSE IF r.kind = "Err" THEN ItemNone
    ELSE ItemPanicked

(***************************************************************************)
(* The inputs the model runs on.                                            *)
(***************************************************************************)
\* the bytes of the enumerated buffers
Bytes == {"e", " ", Lead, Cont}

BoundedSeq(S, n) == UNION {[1..k -> S] : k \in 0..n}

\* every &str of at most n bytes over Bytes
Strs(n) == {s \in BoundedSeq(Bytes, n) : IsStr(s)}

TextEnd == <<"e", "n", "d">>
TextSpaceEndSpace == <<" ", "e", "n", "d", " ">>
TextFunc == <<"f", "u", "n", "c">>
TextFunction == <<"f", "u", "n", "c", "t", "i", "o", "n">>
TextElse == <<"e", "l", "s", "e">>
TextElseIf == <<"e", "l", "s", "e", "i", "f">>
TextOr == <<"o", "r">>

Buffers == Strs(MaxBuf) \cup {TextEnd, TextSpaceEndSpace}

\* Any([Value(Literal("end"), f), Ignore(Whitespace)])
EndRule == Any(<<Value(Literal(TextEnd), "End"), Ignore(Whitespace)>>)

ScanRules ==
    { EndRule,
      Value(Alphabetic, "Identifier"),
      Any(<<Ignore(Whitespace), Value(Literal(<<"e", "e">>), "Ee"),
            Value(Alphabetic, "Identifier")>>),
      Either(Literal(<<"e", "e">>), Literal(<<"e">>)),
      All(<<Alphabetic, EndsWith(<<"e">>)>>, "Word"),
      Not(Whitespace),
      Both(Alphabetic, Not(Literal(<<"e">>))),
      Only(Numeric) }

(***************************************************************************)
(* The Lexer as a state machine.                                            *)
(***************************************************************************)
Self == [data |-> data, buffer |-> buffer, rule |-> rule, index |-> index]

NoProbe ==
    [rule |-> Numeric, value |-> <<>>, result |-> MatchNone, invoked |-> {},
     done |-> FALSE]

Install(lexer, how) ==
    /\ data = lexer.data
    /\ buffer = lexer.buffer
    /\ rule = lexer.rule
    /\ index = lexer.index
    /\ ret = NotCalled
    /\ item = ItemNotCalled
    /\ origin = how
    /\ calls = 0
    /\ eofAt = 0
    /\ reported = <<>>
    /\ fresh = with_buffer(lexer.rule, lexer.buffer)
    /\ freshRet = NotCalled

Init ==
    /\ probe = NoProbe
    /\ \E r \in ScanRules :
          \/ Install(new(r), "new")
          \/ \E b \in Buffers : Install(with_buffer(r, b), "with_buffer")

\* The effect of one call of step on the Lexer and on the record of the run.  `end` grows without
\* bound once the buffer is exhausted; MaxOver caps it.
Called ==
    /\ ret.kind # "Panic"
    /\ index[2] < Len(buffer) + MaxOver
    /\ LET s == step(Self)
           f == step(fresh)
       IN /\ data' = s.self.data
          /\ buffer' = s.self.buffer
          /\ rule' = s.self.rule
          /\ index' = s.self.index
          /\ ret' = s.ret
          /\ calls' = calls + 1
          /\ eofAt' = IF eofAt = 0 /\ s.ret = Err("Eof") THEN calls + 1 ELSE eofAt
          /\ reported' = IF s.full
                         THEN Append(reported, [start |-> index[1],
                                                end |-> s.self.index[2],
                                                token |-> s.ret.token])
                         ELSE reported
          /\ fresh' = f.self
          /\ freshRet' = f.ret
    /\ UNCHANGED <<origin, probe>>

\* the caller calls step
Step ==
    /\ Called
    /\ item' = ItemNotCalled

\* the caller pulls one item from the Iterator
IterNext ==
    /\ Called
    /\ item' = next(ret')

Reset(text) ==
    /\ ret.kind # "Panic"
    /\ LET l == reset(Self, text)
       IN /\ data' = l.data
          /\ buffer' = l.buffer
          /\ rule' = l.rule
          /\ index' = l.index
    /\ ret' = NotCalled
    /\ item' = ItemNotCalled
    /\ origin' = "reset"
    /\ calls' = 0
    /\ eofAt' = 0
    /\ reported' = <<>>
    /\ fresh' = with_buffer(rule, text)
    /\ freshRet' = NotCalled
    /\ UNCHANGED probe

Next ==
    \/ Step
    \/ IterNext
    \/ \E text \in Buffers : Reset(text)

Spec == Init /\ [][Next]_vars

(***************************************************************************)
(* The rule engine on its own: a caller evaluates rule.matches(value).      *)
(***************************************************************************)
\* the bytes of the enumerated windows
WindowBytes == {"e", "n", " ", Lead, Cont}

Windows ==
    {s \in BoundedSeq(WindowBytes, MaxWin) : IsStr(s)}
    \cup {TextEnd, TextFunc, TextFunction, TextElse, TextElseIf, TextOr,
          <<"o">>, <<"o", "r", "e">>, <<"1">>, <<"1", "e">>,
          <<"e", "n", "d", "e", "d">>, <<"c", "a", "t">>,
          <<"c", "a", "t", "s">>}

TextEn == <<"e", "n">>
TextE == <<"e">>
TextEnded == <<"e", "n", "d", "e", "d">>
TextCat == <<"c", "a", "t">>
TextCats == <<"c", "a", "t", "s">>

EitherFunction == Either(Literal(TextFunction), Literal(TextFunc))
OrRule == Any(<<Value(Literal(TextOr), "Or"), Value(Alphabetic, "Identifier")>>)
ElseRule == Any(<<Literal(TextElse), Literal(TextElseIf)>>)

\* the operands of the enumerated Either rules
EitherOperands ==
    { Literal(TextEn), Literal(TextE), Literal(<<>>),
      Numeric, Alphabetic, Whitespace,
      Value(Literal(TextEn), "En"), Value(Alphabetic, "Identifier"),
      Ignore(Value(Whitespace, "Blank")), EndsWith(<<"n">>),
      Not(Alphabetic), Only(Literal(TextE)),
      Both(Alphabetic, EndsWith(<<"n">>)),
      All(<<Alphabetic, EndsWith(<<"n">>)>>, "Word"),
      Either(Literal(TextEn), Literal(TextE)),
      Any(<<Value(Literal(TextEn), "En"), Value(Alphabetic, "Identifier")>>) }

\* the sub-rules of the enumerated Any rules
AnyOperands ==
    { Value(Literal(TextEn), "En"), Value(Literal(TextE), "E"),
      Value(Alphabetic, "Identifier"), Ignore(Whitespace),
      Either(Literal(TextEn), Literal(TextE)),
      Any(<<Value(Literal(TextEn), "En")>>) }

\* the literals of the enumerated Literal rules
LiteralTexts ==
    {<<>>, TextE, TextEn, TextEnd, <<" ">>, <<Lead, Cont>>, <<"e", Lead, Cont>>}

\* the sub-rules of the enumerated All rules
AllOperands ==
    { Literal(TextEn), Literal(TextE), Alphabetic, EndsWith(<<"n">>),
      Value(Alphabetic, "Identifier"), Not(Whitespace) }

\* All([Alphabetic, EndsWith("s")], f)
PluralRule == All(<<Alphabetic, EndsWith(<<"s">>)>>, "Plural")

ProbeRules ==
    {Either(a, b) : a, b \in EitherOperands}
    \cup {Any(rs) : rs \in BoundedSeq(AnyOperands, MaxAny)}
    \cup {EitherFunction, Literal(TextFunc), OrRule, ElseRule}
    \cup {Literal(l) : l \in LiteralTexts}
    \cup {Value(r, "Wrap") : r \in EitherOperands}
    \cup {All(rs, "Group") : rs \in BoundedSeq(AllOperands, MaxAll)}
    \cup {PluralRule}

InitRule ==
    /\ Install(new(Numeric), "new")
    /\ \E r \in ProbeRules, w \in Windows :
          probe = [rule |-> r, value |-> w, result |-> MatchNone,
                   invoked |-> {}, done |-> FALSE]

\* the caller evaluates probe.rule.matches(probe.value)
Evaluate ==
    /\ ~probe.done
    /\ probe' = [probe EXCEPT !.result = matches(probe.rule, probe.value),
                              !.invoked = invoked(probe.rule, probe.value),
                              !.done = TRUE]
    /\ UNCHANGED lexerVars

NextRule == Evaluate

SpecRule == InitRule /\ [][NextRule]_vars

\* the evaluated rule is of the given variant
Probed(tag) == probe.done /\ probe.rule.tag = tag

\* what the i-th sub-rule of the evaluated rule yields on the same window
SubResult(i) == matches(probe.rule.rules[i], probe.value)

(***************************************************************************)
(* Properties of the Lexer, checked under Spec.                             *)
(***************************************************************************)

\* C1: the windows at which step reported a full match are non-empty, start
\* at offset 0, each begins where the one before ended, and together they
\* cover exactly buffer[0..start] for the current start.
ReportedWindowsPartitionPrefix ==
    /\ \A i \in 1..Len(reported) : reported[i].start < reported[i].end
    /\ \A i \in 1..Len(reported) :
          reported[i].start = (IF i = 1 THEN 0 ELSE reported[i - 1].end)
    /\ index[1] = (IF reported = <<>> THEN 0 ELSE reported[Len(reported)].end)
    /\ index[1] <= Len(buffer)

\* C1 witness: a run that reported two full matches, the second one longer
\* than one unit.
TwoWindowsReported ==
    /\ Len(reported) >= 2
    /\ reported[2].end > reported[2].start + 1

\* C2: the window offsets satisfy 0 <= start <= end <= len(buffer) in every
\* reachable state.
IndexWithinBuffer ==
    /\ 0 <= index[1]
    /\ index[1] <= index[2]
    /\ index[2] <= Len(buffer)

\* C3: scanning "end" with Any([Value(Literal("end"), f), Ignore(Whitespace)])
\* until end-of-input has emitted exactly one token, f("end"), for the
\* window [0,3).
ScanEndEmitsOneToken ==
    (rule = EndRule /\ buffer = TextEnd /\ eofAt > 0)
        => reported = <<[start |-> 0, end |-> 3,
                         token |-> Some(Apply("End", TextEnd))]>>

\* C4: scanning " end " with the same rule until end-of-input has reported
\* two full matches: the leading space, carrying no value, and then "end",
\* carrying f("end"); the trailing space gives no token and end-of-input is
\* reported by the fifth call.
ScanSpaceEndSpaceEmitsOneToken ==
    (rule = EndRule /\ buffer = TextSpaceEndSpace /\ eofAt > 0)
        => /\ reported = <<[start |-> 0, end |-> 1, token |-> NoToken],
                           [start |-> 1, end |-> 4,
                            token |-> Some(Apply("End", TextEnd))]>>
           /\ eofAt = 5

\* C4 witness: the scan of " end " has reached end-of-input.
ScanSpaceEndSpaceDone ==
    rule = EndRule /\ buffer = TextSpaceEndSpace /\ eofAt > 0

\* C5: no call fails other than by end-of-input, every call from the
\* len(buffer)-th on (the first, for the empty buffer) returns end-of-input,
\* and the Iterator hands end-of-input out as None.
EofWithinLenCalls ==
    /\ ret.kind # "Panic"
    /\ (calls >= 1 /\ calls >= Len(buffer)) => ret = Err("Eof")
    /\ (item.kind # "NotCalled" /\ ret.kind = "Err") => item = ItemNone
    /\ item.kind # "Panic"

\* C6: after reset(text) the Lexer is the Lexer with_buffer(rule, text)
\* builds, and stays equal to it, results included, under every later
\* sequence of step calls.
ResetEqualsWithBuffer ==
    origin = "reset" => (Self = fresh /\ ret = freshRet)

\* C6 witness: a Lexer that was reset after its window had moved and has
\* since reported a full match and then reached end-of-input.
ResetThenScanned ==
    /\ origin = "reset"
    /\ reported # <<>>
    /\ eofAt > 0

\* C14: the only failure step returns is end-of-input: no call returns
\* Err(UnknownToken) or Err(None), also not for a window no rule matches.
OnlyEofReported ==
    /\ ret.kind = "Err" => ret = Err("Eof")
    /\ ret.error \notin {"UnknownToken", "None"}

\* C14 witness: the last call evaluated a window that the rule tree
\* classifies as NoMatch, and returned Ok(None).
UnmatchedWindowEvaluated ==
    /\ ret = Ok(NoToken)
    /\ data = Slice(buffer, index[1], index[2])
    /\ data # <<>>
    /\ is_none(matches(rule, data))

\* a step call was made in this step of the run
StepCalled == calls' = calls + 1

\* C16: a step call that does not return end-of-input increases `end` by
\* one and leaves buffer and rule alone; where the rule tree classifies the
\* new window buffer[start..end], NoMatch and PartialMatch leave `start`
\* alone and return no token, and FullMatch(value) sets start to end and
\* returns that value.
StepEffect ==
    [][(StepCalled /\ ret' # Err("Eof")) =>
          /\ index'[2] = index[2] + 1
          /\ buffer' = buffer
          /\ rule' = rule
          /\ (/\ is_char_boundary(buffer, index[1])
              /\ is_char_boundary(buffer, index[2] + 1))
                => LET m == matches(rule, Slice(buffer, index[1], index[2] + 1))
                   IN IF is_match(m)
                      THEN index'[1] = index'[2] /\ ret' = Ok(m.token)
                      ELSE index'[1] = index[1] /\ ret' = Ok(NoToken)]_vars

\* C16 witness: the last call returned the value of a full match and moved
\* the window start up to its end.
StepReturnedValue ==
    /\ ret.kind = "Ok"
    /\ ret.token # NoToken
    /\ index[1] = index[2]
    /\ index[2] >= 2

\* C17: once a step call has returned end-of-input, every later step call
\* returns end-of-input too (None through the Iterator), reports no token
\* and leaves `start` alone; only reset ends this.
EofIsAbsorbing ==
    [][(StepCalled /\ ret = Err("Eof")) =>
          /\ ret' = Err("Eof")
          /\ item' \in {ItemNone, ItemNotCalled}
          /\ index'[1] = index[1]
          /\ reported' = reported
          /\ eofAt' = eofAt]_vars

\* C17 witness: two step calls were made after the one that first returned
\* end-of-input, the last of them through the Iterator.
SteppedAfterEof ==
    /\ eofAt > 0
    /\ calls >= eofAt + 2
    /\ item = ItemNone

\* C19: no step call aborts: every call returns a token value, no token, or
\* end-of-input, for every buffer, multi-byte characters included.
StepNeverAborts ==
    ret.kind \in {"NotCalled", "Ok", "Err"}

(***************************************************************************)
(* Properties of Rule::matches, checked under SpecRule.                     *)
(***************************************************************************)

\* C7: when A yields PartialMatch on W, Either(A, B) yields PartialMatch
\* whatever B yields; Either(Literal("function"), Literal("func")) on "func"
\* yields PartialMatch while Literal("func") yields a full match.
EitherDefersWhileAPartial ==
    /\ (Probed("Either") /\ is_partial_match(SubResult(1)))
          => probe.result = PartialMatch
    /\ (probe.done /\ probe.rule = EitherFunction /\ probe.value = TextFunc)
          => probe.result = PartialMatch
    /\ (probe.done /\ probe.rule = Literal(TextFunc) /\ probe.value = TextFunc)
          => probe.result = Match(NoToken)

\* C7 witness: an evaluated Either whose A is a partial match and whose B
\* is a full match.
EitherPartialAFullB ==
    /\ Probed("Either")
    /\ is_partial_match(SubResult(1))
    /\ is_match(SubResult(2))

\* C8 as stated: Either(A, B) returns A's result, value included, when A is
\* a full match, and B's result, value included, when A is NoMatch and B is
\* a full match.
EitherReturnsOperandResult ==
    Probed("Either")
        => /\ is_match(SubResult(1)) => probe.result = SubResult(1)
           /\ (is_none(SubResult(1)) /\ is_match(SubResult(2)))
                 => probe.result = SubResult(2)

\* C8 amended: Either(A, B) yields a full match carrying no value when A is
\* a full match, and when A is NoMatch and B is a full match; the value the
\* operand carried is dropped.
EitherMatchCarriesNoValue ==
    Probed("Either")
        => /\ is_match(SubResult(1)) => probe.result = Match(NoToken)
           /\ (is_none(SubResult(1)) /\ is_match(SubResult(2)))
                 => probe.result = Match(NoToken)

\* C8 witness: an evaluated Either whose A is NoMatch and whose B is a full
\* match carrying a value.
EitherOperandCarriesValue ==
    /\ Probed("Either")
    /\ is_none(SubResult(1))
    /\ is_match(SubResult(2))
    /\ SubResult(2).token # NoToken

\* C9: Any(rules) returns the result, value included, of the first sub-rule
\* that is a full match if no sub-rule listed before it is a partial match,
\* and NoMatch in every other case; it never returns PartialMatch.
\* Any([Value(Literal("or"), f), Value(Alphabetic, g)]) returns f("or") on
\* "or" and g(W) on an alphabetic W for which Literal("or") is NoMatch.
AnyReturnsFirstFullMatch ==
    /\ Probed("Any") =>
          LET n == Len(probe.rule.rules)
              full == {i \in 1..n : is_match(SubResult(i))}
              first == CHOOSE i \in full : \A j \in full : i <= j
          IN /\ ~is_partial_match(probe.result)
             /\ IF /\ full # {}
                   /\ \A j \in 1..(first - 1) : ~is_partial_match(SubResult(j))
                THEN probe.result = SubResult(first)
                ELSE probe.result = MatchNone
    /\ (probe.done /\ probe.rule = OrRule /\ probe.value = TextOr)
          => probe.result = Match(Some(Apply("Or", TextOr)))
    /\ (/\ probe.done
        /\ probe.rule = OrRule
        /\ is_match(matchesAlphabetic(probe.value))
        /\ is_none(matchesLiteral(TextOr, probe.value)))
          => probe.result = Match(Some(Apply("Identifier", probe.value)))

\* C9 witness: an evaluated Any whose first sub-rule is a partial match and
\* whose second is a full match, which is dropped.
AnyFullAfterPartialDropped ==
    /\ Probed("Any")
    /\ Len(probe.rule.rules) >= 2
    /\ is_partial_match(SubResult(1))
    /\ is_match(SubResult(2))
    /\ probe.result = MatchNone

\* C10: Any(rules) returns a full match on W only when no sub-rule, listed
\* before or after the matching one, yields PartialMatch on W.
AnyAcceptsOnlyWithoutPartialSibling ==
    (Probed("Any") /\ is_match(probe.result))
        => \A i \in 1..Len(probe.rule.rules) : ~is_partial_match(SubResult(i))

\* C11: Literal(L) yields a full match carrying no value iff W = L,
\* PartialMatch iff W is a prefix of L other than L, and NoMatch otherwise,
\* the empty window and the empty literal included; Literal("end") on "en",
\* "end", "ended" yields PartialMatch, FullMatch(None), NoMatch.
LiteralClassifiesByPrefix ==
    /\ Probed("Literal") =>
          LET L == probe.rule.literal
              W == probe.value
              prefix == Len(W) <= Len(L) /\ \A i \in 1..Len(W) : W[i] = L[i]
          IN /\ probe.result = Match(NoToken) <=> W = L
             /\ probe.result = PartialMatch <=> (prefix /\ W # L)
             /\ probe.result = MatchNone <=> ~prefix
    /\ (probe.done /\ probe.rule = Literal(TextEnd))
          => /\ probe.value = TextEn => probe.result = PartialMatch
             /\ probe.value = TextEnd => probe.result = Match(NoToken)
             /\ probe.value = TextEnded => probe.result = MatchNone

\* C11 witness: Literal("end") evaluated on "ended", of which it is a proper
\* prefix.
LiteralOnLongerWindow ==
    /\ probe.done
    /\ probe.rule = Literal(TextEnd)
    /\ probe.value = TextEnded

\* C12: Value(R, f) yields FullMatch(Some(f(W))), f applied to the whole
\* window and R's own value dropped, when R is a full match on W;
\* PartialMatch when R is a partial match; NoMatch when R is NoMatch.
ValueAppliesExtractorToWindow ==
    Probed("Value") =>
        /\ is_match(SubResult(1))
              => probe.result = Match(Some(Apply(probe.rule.out, probe.value)))
        /\ is_partial_match(SubResult(1)) => probe.result = PartialMatch
        /\ is_none(SubResult(1)) => probe.result = MatchNone

\* C12 witness: an evaluated Value whose inner rule is a full match that
\* carries a value of its own.
ValueOverValueCarryingRule ==
    /\ Probed("Value")
    /\ is_match(SubResult(1))
    /\ SubResult(1).token # NoToken

\* C13: All(rules, f) is decided by the first sub-rule that is not a full
\* match: NoMatch if it yields NoMatch, PartialMatch if it yields
\* PartialMatch; when every sub-rule is a full match, the empty list
\* included, the result is FullMatch(Some(f(W))).
\* All([Alphabetic, EndsWith("s")], f) yields FullMatch(Some(f("cats"))) on
\* "cats" and NoMatch on "cat".
AllDecidedByFirstNonFull ==
    /\ Probed("All") =>
          LET n == Len(probe.rule.rules)
              short == {i \in 1..n : ~is_match(SubResult(i))}
              first == CHOOSE i \in short : \A j \in short : i <= j
          IN IF short = {}
             THEN probe.result = Match(Some(Apply(probe.rule.out, probe.value)))
             ELSE IF is_none(SubResult(first))
             THEN probe.result = MatchNone
             ELSE probe.result = PartialMatch
    /\ (probe.done /\ probe.rule = PluralRule /\ probe.value = TextCats)
          => probe.result = Match(Some(Apply("Plural", TextCats)))
    /\ (probe.done /\ probe.rule = PluralRule /\ probe.value = TextCat)
          => probe.result = MatchNone

\* C13 witness: an evaluated All whose first sub-rule is a partial match
\* and whose second is NoMatch.
AllPartialBeforeNone ==
    /\ Probed("All")
    /\ Len(probe.rule.rules) = 2
    /\ is_partial_match(SubResult(1))
    /\ is_none(SubResult(2))

\* C18: while matches runs, the extractor of a Value(R, f) node is called
\* on a window W only if R is a full match on W, and the extractor of an
\* All(rules, f) node only if every sub-rule is a full match on W.
ExtractorOnlyOnFullMatch ==
    \A c \in probe.invoked :
        /\ c.rule.tag = "Value" => is_match(matches(c.rule.rules[1], c.value))
        /\ c.rule.tag = "All" =>
              \A i \in 1..Len(c.rule.rules) :
                  is_match(matches(c.rule.rules[i], c.value))

====
